---- MODULE Spec2Model ----
(***************************************************************************)
(* Model of the tetris-optimizer core: tetromino geometry                  *)
(* (internal/tetromino), the board (internal/grid) and the backtracking    *)
(* search with size escalation (internal/solver).                          *)
(*                                                                         *)
(* A Point is a record [X, Y]; a Tetromino is a record                     *)
(* [ID, Points, Width, Height, Position]; a Grid is a record [Size, Cells] *)
(* with Cells[y][x] indexed from 0 as in the Go code.  Go pointers that    *)
(* may be nil are modelled by the value Nil.                               *)
(***************************************************************************)
EXTENDS Integers, Sequences, FiniteSets, TLC

(* ---------------------------------------------------------------------- *)
(* Bounds of the model                                                     *)
(* ---------------------------------------------------------------------- *)

\* largest number of pieces in an input list
MaxPieces == 3

\* largest grid size handed directly to SolveTetris
MaxGridSize == 4

\* largest number of Rotate90 calls a direct caller makes in a row
MaxTurns == 5

\* largest size a direct caller hands to NewGrid
MaxBoardSize == 3

(* ---------------------------------------------------------------------- *)
(* Basic values                                                            *)
(* ---------------------------------------------------------------------- *)

\* a nil pointer
Nil == [nil |-> TRUE]

\* a nil error
NoError == "nil"

\* the rune stored in an empty cell
EmptyCell == "."

\* the rune that marks a block in a 4x4 piece definition
BlockChar == "#"

\* labels handed out to the pieces of an input file, in order
Labels == <<"A", "B", "C", "D", "E", "F">>

Pt(x, y) == [X |-> x, Y |-> y]

Add(p, other) == [X |-> p.X + other.X, Y |-> p.Y + other.Y]

MinOf(S) == CHOOSE m \in S : \A e \in S : m <= e

MaxOf(S) == CHOOSE m \in S : \A e \in S : m >= e

Range(s) == {s[i] : i \in 1..Len(s)}

(* ---------------------------------------------------------------------- *)
(* Tetromino                                                               *)
(* ---------------------------------------------------------------------- *)

\* the cells of a 4x4 definition in the order the nested loops visit them
ScanOrder == [k \in 1..16 |-> Pt((k - 1) % 4, (k - 1) \div 4)]

IsBlock(grid, p) == grid[p.Y + 1][p.X + 1] = BlockChar

NewTetromino(id, grid) ==
    IF Len(grid) # 4 THEN Nil
    ELSE IF \E y \in 1..4 : Len(grid[y]) # 4 THEN Nil
    ELSE LET points == SelectSeq(ScanOrder, LAMBDA p : IsBlock(grid, p))
         IN  IF Len(points) # 4 THEN Nil
             ELSE LET minX == MinOf({points[i].X : i \in 1..4})
                      maxX == MaxOf({points[i].X : i \in 1..4})
                      minY == MinOf({points[i].Y : i \in 1..4})
                      maxY == MaxOf({points[i].Y : i \in 1..4})
                  IN  [ID       |-> id,
                       Points   |-> [i \in 1..4 |->
                                       Pt(points[i].X - minX, points[i].Y - minY)],
                       Width    |-> maxX - minX + 1,
                       Height   |-> maxY - minY + 1,
                       Position |-> Pt(0, 0)]

Copy(t) ==
    [ID       |-> t.ID,
     Points   |-> [i \in 1..Len(t.Points) |-> t.Points[i]],
     Width    |-> t.Width,
     Height   |-> t.Height,
     Position |-> t.Position]

SetPosition(t, x, y) == [t EXCEPT !.Position = Pt(x, y)]

GetAbsolutePoints(t) == [i \in 1..Len(t.Points) |-> Add(t.Points[i], t.Position)]

\* normalizePoints that shifts the points along the x axis only
normalizePointsX(points) ==
    IF Len(points) = 0 THEN points
    ELSE LET minX == MinOf({points[i].X : i \in 1..Len(points)})
         IN  [i \in 1..Len(points) |-> Pt(points[i].X - minX, points[i].Y)]

normalizePoints(points) ==
    IF Len(points) = 0 THEN points
    ELSE LET minX == MinOf({points[i].X : i \in 1..Len(points)})
             minY == MinOf({points[i].Y : i \in 1..Len(points)})
         IN  [i \in 1..Len(points) |-> Pt(points[i].X - minX, points[i].Y - minY)]

\* Rotate90 with the transform (x, y) -> (y, x)
Rotate90Transposed(t) ==
    LET newPoints == [i \in 1..Len(t.Points) |-> Pt(t.Points[i].Y, t.Points[i].X)]
    IN  [t EXCEPT !.Points = normalizePoints(newPoints),
                  !.Width  = t.Height,
                  !.Height = t.Width]

\* Rotate90 that keeps Width and Height as they were
Rotate90KeepBox(t) ==
    LET newPoints == [i \in 1..Len(t.Points) |-> Pt(t.Points[i].Y, 0 - t.Points[i].X)]
    IN  [t EXCEPT !.Points = normalizePoints(newPoints)]

Rotate90(t) ==
    LET newPoints == [i \in 1..Len(t.Points) |-> Pt(t.Points[i].Y, 0 - t.Points[i].X)]
    IN  [t EXCEPT !.Points = normalizePoints(newPoints),
                  !.Width  = t.Height,
                  !.Height = t.Width]

\* the comparison function handed to sort.Slice in ShapeKey
PointLess(p, q) == IF p.Y = q.Y THEN p.X < q.X ELSE p.Y < q.Y

\* the insertion step of a sort that leaves the points in the order given
InsertPointAtEnd(s, p) == Append(s, p)

RECURSIVE InsertPoint(_, _)
InsertPoint(s, p) ==
    IF Len(s) = 0 THEN <<p>>
    ELSE IF PointLess(p, s[Len(s)])
         THEN Append(InsertPoint(SubSeq(s, 1, Len(s) - 1), p), s[Len(s)])
         ELSE Append(s, p)

RECURSIVE SortPoints(_)
SortPoints(s) ==
    IF Len(s) = 0 THEN <<>>
    ELSE InsertPoint(SortPoints(SubSeq(s, 1, Len(s) - 1)), s[Len(s)])

RECURSIVE JoinKey(_)
JoinKey(points) ==
    IF Len(points) = 0 THEN ""
    ELSE LET n    == Len(points)
             last == ToString(points[n].X) \o ":" \o ToString(points[n].Y)
         IN  IF n = 1 THEN last
             ELSE JoinKey(SubSeq(points, 1, n - 1)) \o "," \o last

\* ShapeKey that joins the points without sorting them first
ShapeKeyUnsorted(t) == JoinKey(t.Points)

ShapeKey(t) == JoinKey(SortPoints(t.Points))

\* state of the loop of GenerateRotations after i iterations
RECURSIVE RotationLoop(_, _)
RotationLoop(t, i) ==
    IF i = 0 THEN [rotations |-> <<>>, current |-> Copy(t), seen |-> {}]
    ELSE LET st  == RotationLoop(t, i - 1)
             key == ShapeKey(st.current)
         IN  [rotations |-> IF key \notin st.seen
                            THEN Append(st.rotations, Copy(st.current))
                            ELSE st.rotations,
              current   |-> Rotate90(st.current),
              seen      |-> st.seen \cup {key}]

\* GenerateRotations that puts each new rotation in front of the earlier ones
GenerateRotationsReversed(t) ==
    LET rotations == RotationLoop(t, 4).rotations
    IN  [i \in 1..Len(rotations) |-> rotations[Len(rotations) + 1 - i]]

GenerateRotations(t) == RotationLoop(t, 4).rotations

shapeEquals(t, other) ==
    IF Len(t.Points) # Len(other.Points) THEN FALSE
    ELSE IF t.Width # other.Width \/ t.Height # other.Height THEN FALSE
    ELSE ShapeKey(t) = ShapeKey(other)

IsEquivalent(t, other) ==
    IF t.ID # other.ID THEN FALSE
    ELSE LET rotations1 == GenerateRotations(t)
             rotations2 == GenerateRotations(other)
         IN  \E i \in 1..Len(rotations1) : \E j \in 1..Len(rotations2) :
                 shapeEquals(rotations1[i], rotations2[j])

(* ---------------------------------------------------------------------- *)
(* Grid                                                                    *)
(* ---------------------------------------------------------------------- *)

\* NewGrid that accepts size 0
NewGridNonNegative(size) ==
    IF size < 0 THEN Nil
    ELSE [Size  |-> size,
          Cells |-> [i \in 0..(size - 1) |-> [j \in 0..(size - 1) |-> EmptyCell]]]

NewGrid(size) ==
    IF size <= 0 THEN Nil
    ELSE [Size  |-> size,
          Cells |-> [i \in 0..(size - 1) |-> [j \in 0..(size - 1) |-> EmptyCell]]]

\* IsValidPosition with x > 0 and y > 0 as lower bounds
IsValidPositionStrict(gr, x, y) == x > 0 /\ x < gr.Size /\ y > 0 /\ y < gr.Size

IsValidPosition(gr, x, y) == x >= 0 /\ x < gr.Size /\ y >= 0 /\ y < gr.Size

IsEmpty(gr, x, y) ==
    IF ~IsValidPosition(gr, x, y) THEN FALSE
    ELSE gr.Cells[y][x] = EmptyCell

\* CanPlaceTetromino that checks the bounds only
CanPlaceTetrominoInside(gr, t, x, y) ==
    \A i \in 1..Len(t.Points) :
        IsValidPosition(gr, x + t.Points[i].X, y + t.Points[i].Y)

CanPlaceTetromino(gr, t, x, y) ==
    \A i \in 1..Len(t.Points) :
        LET newX == x + t.Points[i].X
            newY == y + t.Points[i].Y
        IN  IsValidPosition(gr, newX, newY) /\ IsEmpty(gr, newX, newY)

\* the grid after writing value into every in-bounds cell of targets
WriteCells(gr, targets, value) ==
    [gr EXCEPT !.Cells =
        [cy \in 0..(gr.Size - 1) |->
            [cx \in 0..(gr.Size - 1) |->
                IF \E i \in 1..Len(targets) : targets[i] = Pt(cx, cy)
                THEN value
                ELSE gr.Cells[cy][cx]]]]

\* PlaceTetromino whose write loop stops one point early
PlaceTetrominoShort(gr, t, x, y) ==
    IF ~CanPlaceTetromino(gr, t, x, y)
    THEN [err |-> TRUE, g |-> gr, t |-> t]
    ELSE [err |-> FALSE,
          g   |-> WriteCells(gr, [i \in 1..(Len(t.Points) - 1) |->
                                     Add(t.Points[i], Pt(x, y))], t.ID),
          t   |-> SetPosition(t, x, y)]

\* PlaceTetromino that does not record the anchor in the piece
PlaceTetrominoNoAnchor(gr, t, x, y) ==
    IF ~CanPlaceTetromino(gr, t, x, y)
    THEN [err |-> TRUE, g |-> gr, t |-> t]
    ELSE [err |-> FALSE,
          g   |-> WriteCells(gr, [i \in 1..Len(t.Points) |-> Add(t.Points[i], Pt(x, y))], t.ID),
          t   |-> t]

\* PlaceTetromino without the CanPlaceTetromino check
PlaceTetrominoUnchecked(gr, t, x, y) ==
    [err |-> FALSE,
     g   |-> WriteCells(gr, [i \in 1..Len(t.Points) |-> Add(t.Points[i], Pt(x, y))], t.ID),
     t   |-> SetPosition(t, x, y)]

\* PlaceTetromino that writes each point with its coordinates exchanged
PlaceTetrominoSwapped(gr, t, x, y) ==
    IF ~CanPlaceTetromino(gr, t, x, y)
    THEN [err |-> TRUE, g |-> gr, t |-> t]
    ELSE [err |-> FALSE,
          g   |-> WriteCells(gr, [i \in 1..Len(t.Points) |->
                                     Pt(x + t.Points[i].Y, y + t.Points[i].X)], t.ID),
          t   |-> SetPosition(t, x, y)]

\* PlaceTetromino that records the anchor before it checks the placement
PlaceTetrominoAnchorFirst(gr, t, x, y) ==
    IF ~CanPlaceTetromino(gr, t, x, y)
    THEN [err |-> TRUE, g |-> gr, t |-> SetPosition(t, x, y)]
    ELSE [err |-> FALSE,
          g   |-> WriteCells(gr, [i \in 1..Len(t.Points) |-> Add(t.Points[i], Pt(x, y))], t.ID),
          t   |-> SetPosition(t, x, y)]

\* result of PlaceTetromino: the error flag, the grid and the piece afterwards
PlaceTetromino(gr, t, x, y) ==
    IF ~CanPlaceTetromino(gr, t, x, y)
    THEN [err |-> TRUE, g |-> gr, t |-> t]
    ELSE [err |-> FALSE,
          g   |-> WriteCells(gr, [i \in 1..Len(t.Points) |-> Add(t.Points[i], Pt(x, y))], t.ID),
          t   |-> SetPosition(t, x, y)]

\* RemoveTetromino that clears nothing when a cell of the piece is off the grid
RemoveTetrominoInsideOnly(gr, t) ==
    LET absolutePoints == GetAbsolutePoints(t)
    IN  IF \A i \in 1..Len(absolutePoints) :
               IsValidPosition(gr, absolutePoints[i].X, absolutePoints[i].Y)
        THEN WriteCells(gr, absolutePoints, EmptyCell)
        ELSE gr

\* RemoveTetromino clearing the local cells instead of the absolute ones
RemoveTetrominoLocal(gr, t) ==
    LET valid == SelectSeq(t.Points, LAMBDA p : IsValidPosition(gr, p.X, p.Y))
    IN  WriteCells(gr, valid, EmptyCell)

RemoveTetromino(gr, t) ==
    LET absolutePoints == GetAbsolutePoints(t)
        valid == SelectSeq(absolutePoints, LAMBDA p : IsValidPosition(gr, p.X, p.Y))
    IN  WriteCells(gr, valid, EmptyCell)

\* the rune that ends a line
Newline == "\n"

\* String that writes the columns of the grid instead of its rows
RECURSIVE StringColumns(_, _)
StringColumns(gr, n) ==
    IF n = 0 THEN <<>>
    ELSE StringColumns(gr, n - 1)
            \o [i \in 1..gr.Size |-> gr.Cells[i - 1][n - 1]]
            \o <<Newline>>

\* the runes String has written to its builder after the first n rows
RECURSIVE StringRows(_, _)
StringRows(gr, n) ==
    IF n = 0 THEN <<>>
    ELSE StringRows(gr, n - 1)
            \o [i \in 1..gr.Size |-> gr.Cells[n - 1][i - 1]]
            \o <<Newline>>

\* the result of String, rune by rune
String(gr) == StringRows(gr, gr.Size)

CountEmpty(gr) ==
    Cardinality({c \in (0..(gr.Size - 1)) \X (0..(gr.Size - 1)) :
                    gr.Cells[c[2]][c[1]] = EmptyCell})

SetCell(gr, x, y, value) ==
    IF ~IsValidPosition(gr, x, y) THEN [err |-> "out of bounds", g |-> gr]
    ELSE [err |-> NoError, g |-> [gr EXCEPT !.Cells[y][x] = value]]

\* GetCell never fails inside the loops of ValidateSolution: x, y < Size
GetCell(gr, x, y) ==
    IF ~IsValidPosition(gr, x, y) THEN [cell |-> EmptyCell, err |-> TRUE]
    ELSE [cell |-> gr.Cells[y][x], err |-> FALSE]

(* ---------------------------------------------------------------------- *)
(* Solver: pure parts                                                      *)
(* ---------------------------------------------------------------------- *)

\* int(math.Ceil(math.Sqrt(float64(n)))): the least s with s*s >= n
RECURSIVE CeilSqrtFrom(_, _)
CeilSqrtFrom(n, s) == IF s * s >= n THEN s ELSE CeilSqrtFrom(n, s + 1)

\* the square root truncated instead of rounded up
RECURSIVE FloorSqrtFrom(_, _)
FloorSqrtFrom(n, s) == IF (s + 1) * (s + 1) > n THEN s ELSE FloorSqrtFrom(n, s + 1)

FloorSqrt(n) == FloorSqrtFrom(n, 0)

CeilSqrt(n) == CeilSqrtFrom(n, 0)

\* CalculateMinSquareSize with one cell of slack added to the square root
CalculateMinSquareSizePadded(ts) ==
    IF Len(ts) = 0 THEN 0
    ELSE LET minSize == CeilSqrt(Len(ts) * 4) + 1
         IN  IF Len(ts) = 1
             THEN MaxOf({minSize, ts[1].Width, ts[1].Height})
             ELSE minSize

CalculateMinSquareSize(ts) ==
    IF Len(ts) = 0 THEN 0
    ELSE LET totalBlocks == Len(ts) * 4
             root        == CeilSqrt(totalBlocks)
             minSize     == IF root < 1 THEN 1 ELSE root
         IN  IF Len(ts) = 1
             THEN LET t  == ts[1]
                      m1 == IF t.Width > minSize THEN t.Width ELSE minSize
                  IN  IF t.Height > m1 THEN t.Height ELSE m1
             ELSE minSize

\* a less function that compares the areas only
TetrominoLessByArea(a, b) == a.Width * a.Height > b.Width * b.Height

\* the less function handed to sort.Slice in SolveTetris
TetrominoLess(a, b) ==
    LET areaA == a.Width * a.Height
        areaB == b.Width * b.Height
    IN  IF areaA # areaB THEN areaA > areaB
        ELSE IF a.Width # b.Width THEN a.Width > b.Width
        ELSE a.Height > b.Height

\* sort.Slice sorts slices of fewer than 12 elements by insertion
RECURSIVE InsertTetromino(_, _)
InsertTetromino(s, t) ==
    IF Len(s) = 0 THEN <<t>>
    ELSE IF TetrominoLess(t, s[Len(s)])
         THEN Append(InsertTetromino(SubSeq(s, 1, Len(s) - 1), t), s[Len(s)])
         ELSE Append(s, t)

RECURSIVE SortTetrominoes(_)
SortTetrominoes(s) ==
    IF Len(s) = 0 THEN <<>>
    ELSE InsertTetromino(SortTetrominoes(SubSeq(s, 1, Len(s) - 1)), s[Len(s)])

\* the map placedPieces built by the first loop of ValidateSolution
PlacedPieces(gr) ==
    LET coords == (0..(gr.Size - 1)) \X (0..(gr.Size - 1))
        runes  == {GetCell(gr, c[1], c[2]).cell : c \in coords} \ {EmptyCell}
    IN  [r \in runes |->
            Cardinality({c \in coords : GetCell(gr, c[1], c[2]).cell = r})]

\* the second loop of ValidateSolution from piece i on: the first error, if any
RECURSIVE CheckPieces(_, _, _)
CheckPieces(placedPieces, ts, i) ==
    IF i > Len(ts) THEN NoError
    ELSE IF ts[i].ID \notin DOMAIN placedPieces THEN "not found"
    ELSE IF placedPieces[ts[i].ID] # 4 THEN "wrong block count"
    ELSE CheckPieces(placedPieces, ts, i + 1)

\* ValidateSolution without the comparison of the numbers of pieces
ValidateSolutionNoCount(gr, ts) == CheckPieces(PlacedPieces(gr), ts, 1)

\* the error returned by ValidateSolution
ValidateSolution(gr, ts) ==
    LET placedPieces == PlacedPieces(gr)
        pieceErr     == CheckPieces(placedPieces, ts, 1)
    IN  IF pieceErr # NoError THEN pieceErr
        ELSE IF Cardinality(DOMAIN placedPieces) # Len(ts) THEN "wrong piece count"
        ELSE NoError

(* ---------------------------------------------------------------------- *)
(* Inputs                                                                  *)
(* ---------------------------------------------------------------------- *)

\* 4x4 piece definitions as the parser hands them to NewTetromino
ShapeGrids ==
    << << <<"#", ".", ".", ".">>, <<"#", ".", ".", ".">>,
          <<"#", ".", ".", ".">>, <<"#", ".", ".", ".">> >>,      \* I, upright
       << <<".", ".", ".", ".">>, <<"#", "#", "#", "#">>,
          <<".", ".", ".", ".">>, <<".", ".", ".", ".">> >>,      \* I, flat
       << <<".", ".", ".", ".">>, <<".", "#", "#", ".">>,
          <<".", "#", "#", ".">>, <<".", ".", ".", ".">> >>,      \* O
       << <<"#", ".", ".", ".">>, <<"#", ".", ".", ".">>,
          <<"#", "#", ".", ".">>, <<".", ".", ".", ".">> >>,      \* L
       << <<".", "#", ".", ".">>, <<".", "#", ".", ".">>,
          <<"#", "#", ".", ".">>, <<".", ".", ".", ".">> >>,      \* J
       << <<".", "#", "#", ".">>, <<"#", "#", ".", ".">>,
          <<".", ".", ".", ".">>, <<".", ".", ".", ".">> >>,      \* S
       << <<"#", "#", ".", ".">>, <<".", "#", "#", ".">>,
          <<".", ".", ".", ".">>, <<".", ".", ".", ".">> >>,      \* Z
       << <<"#", "#", "#", ".">>, <<".", "#", ".", ".">>,
          <<".", ".", ".", ".">>, <<".", ".", ".", ".">> >> >>    \* T

\* a piece built directly as a Tetromino value (the fields are exported):
\* four cells of one row, too wide for the grids SolveOptimal tries for two pieces
WidePiece(id) ==
    [ID       |-> id,
     Points   |-> <<Pt(0, 0), Pt(1, 0), Pt(2, 0), Pt(7, 0)>>,
     Width    |-> 8,
     Height   |-> 1,
     Position |-> Pt(0, 0)]

\* the pieces a caller can put at position i of a list of one piece
PiecesAt(i) ==
    {NewTetromino(Labels[i], ShapeGrids[k]) : k \in 1..Len(ShapeGrids)}
        \cup {WidePiece(Labels[i])}

\* the definitions used in the lists of two and more pieces: I, L and S
SearchShapes == {1, 4, 6}

\* the pieces a caller can put at position i of a longer list
SearchPiecesAt(i) ==
    {NewTetromino(Labels[i], ShapeGrids[k]) : k \in SearchShapes}
        \cup {WidePiece(Labels[i])}

RECURSIVE ListsOfLength(_)
ListsOfLength(n) ==
    IF n = 0 THEN {<<>>}
    ELSE {Append(l, t) : l \in ListsOfLength(n - 1), t \in SearchPiecesAt(n)}

Inputs ==
    {<<>>} \cup {<<t>> : t \in PiecesAt(1)}
           \cup UNION {ListsOfLength(n) : n \in 2..MaxPieces}

(* ---------------------------------------------------------------------- *)
(* Solver: state machine                                                   *)
(* ---------------------------------------------------------------------- *)

VARIABLES
    tetrominoes,  \* the caller's piece list
    mode,         \* the function the caller invoked
    pc,           \* control location: idle, call, loop, ret, done
    gridSize,     \* SolveTetris: the parameter gridSize
    g,            \* SolveTetris: the grid g shared by all backtrack calls
    sorted,       \* SolveTetris: sortedTetrominoes
    stack,        \* the active calls of backtrack, innermost last
    retval,       \* the value the last finished backtrack call returned
    minSize,      \* SolveOptimal: minSize (CalculateMinSquareSize's result)
    size,         \* SolveOptimal: the loop variable size
    final,        \* SolveOptimal: the loop is over, the last attempt runs
    attempts,     \* SolveOptimal: the SolveTetris calls finished so far
    result,       \* the *Result returned to the caller
    err           \* the error returned to the caller (TRUE: non-nil)

\* a caller that uses the grid and the pieces directly, without the solver
VARIABLES
    board,        \* the grid the caller made with NewGrid, or Nil
    piece,        \* the piece the caller works with
    built,        \* that piece as NewTetromino returned it
    turns,        \* the number of Rotate90 calls made so far
    last,         \* the most recent call: arguments, results, state before it
    stage         \* how far the caller is in its sequence of calls

solverVars == <<tetrominoes, mode, pc, gridSize, g, sorted, stack, retval,
                minSize, size, final, attempts, result, err>>

opVars == <<board, piece, built, turns, last, stage>>

vars == <<solverVars, opVars>>

\* the record kept in last before any call
NoCall ==
    [op |-> "none", x |-> 0, y |-> 0, ret |-> FALSE, err |-> NoError,
     g0 |-> Nil, t0 |-> Nil, ts |-> <<>>, out |-> <<>>,
     before |-> [op |-> "none", x |-> 0, y |-> 0, ret |-> FALSE,
                 err |-> NoError, g0 |-> Nil, t0 |-> Nil]]

\* the direct caller has not started
OpsIdle ==
    /\ board = Nil
    /\ piece = Nil
    /\ built = Nil
    /\ turns = 0
    /\ last = NoCall
    /\ stage = "start"

Init ==
    /\ tetrominoes \in Inputs
    /\ mode = "idle"
    /\ pc = "idle"
    /\ gridSize = 0
    /\ g = Nil
    /\ sorted = <<>>
    /\ stack = <<>>
    /\ retval = FALSE
    /\ minSize = 0
    /\ size = 0
    /\ final = FALSE
    /\ attempts = <<>>
    /\ result = Nil
    /\ err = FALSE
    /\ OpsIdle

\* a call backtrack(g, tetrominoes, index) that has just been entered
NewFrame(index) == [index |-> index, rotations |-> <<>>, ri |-> 1, y |-> 0, x |-> 0]

Top == stack[Len(stack)]

Pop == SubSeq(stack, 1, Len(stack) - 1)

ReplaceTop(f) == [stack EXCEPT ![Len(stack)] = f]

\* SolveTetris up to its call of backtrack; without a search it returns at once
BeginSolveTetris(n) ==
    /\ gridSize' = n
    /\ retval' = FALSE
    /\ IF Len(tetrominoes) = 0
       THEN /\ result' = [Grid |-> Nil, Success |-> FALSE, Size |-> n]
            /\ err' = FALSE
            /\ pc' = "done"
            /\ UNCHANGED <<g, sorted, stack>>
       ELSE IF NewGrid(n) = Nil
       THEN /\ result' = Nil
            /\ err' = TRUE
            /\ pc' = "done"
            /\ UNCHANGED <<g, sorted, stack>>
       ELSE /\ g' = NewGrid(n)
            /\ sorted' = SortTetrominoes(tetrominoes)
            /\ stack' = <<NewFrame(0)>>
            /\ pc' = "call"
            /\ UNCHANGED <<result, err>>

\* the Result SolveTetris builds when backtrack has returned
SolveTetrisResult == [Grid |-> g, Success |-> retval, Size |-> gridSize]

\* the caller invokes CalculateMinSquareSize
CallCalculateMinSquareSize ==
    /\ pc = "idle"
    /\ mode' = "minsize"
    /\ minSize' = CalculateMinSquareSize(tetrominoes)
    /\ pc' = "done"
    /\ UNCHANGED opVars
    /\ UNCHANGED <<tetrominoes, gridSize, g, sorted, stack, retval, size, final,
                   attempts, result, err>>

\* SolveTetris that sorts the caller's slice itself instead of a copy
CallSolveTetrisInPlace ==
    /\ pc = "idle"
    /\ \E n \in 0..MaxGridSize :
        /\ mode' = "tetris"
        /\ BeginSolveTetris(n)
    /\ tetrominoes' = SortTetrominoes(tetrominoes)
    /\ UNCHANGED opVars
    /\ UNCHANGED <<minSize, size, final, attempts>>

\* the caller invokes SolveTetris(tetrominoes, n)
CallSolveTetris ==
    /\ pc = "idle"
    /\ \E n \in 0..MaxGridSize :
        /\ mode' = "tetris"
        /\ BeginSolveTetris(n)
    /\ UNCHANGED opVars
    /\ UNCHANGED <<tetrominoes, minSize, size, final, attempts>>

\* SolveOptimal without the early return for the empty list
CallSolveOptimalNoGuard ==
    /\ pc = "idle"
    /\ mode' = "optimal"
    /\ minSize' = CalculateMinSquareSize(tetrominoes)
    /\ size' = IF Len(tetrominoes) = 0 THEN minSize' + 4 ELSE minSize'
    /\ BeginSolveTetris(size')
    /\ UNCHANGED opVars
    /\ UNCHANGED <<tetrominoes, final, attempts>>

\* the caller invokes SolveOptimal(tetrominoes)
CallSolveOptimal ==
    /\ pc = "idle"
    /\ mode' = "optimal"
    /\ IF Len(tetrominoes) = 0
       THEN /\ result' = [Grid |-> Nil, Success |-> FALSE, Size |-> 0]
            /\ err' = FALSE
            /\ pc' = "done"
            /\ UNCHANGED <<gridSize, g, sorted, stack, retval, minSize, size>>
       ELSE /\ minSize' = CalculateMinSquareSize(tetrominoes)
            /\ size' = minSize'
            /\ BeginSolveTetris(minSize')
    /\ UNCHANGED opVars
    /\ UNCHANGED <<tetrominoes, final, attempts>>

\* backtrack is entered: the base case, or the rotations of the current piece
BacktrackEnter ==
    /\ pc = "call"
    /\ IF Top.index >= Len(sorted)
       THEN /\ stack' = Pop
            /\ retval' = TRUE
            /\ pc' = "ret"
       ELSE /\ stack' = ReplaceTop([Top EXCEPT
                           !.rotations = GenerateRotations(sorted[Top.index + 1])])
            /\ retval' = retval
            /\ pc' = "loop"
    /\ UNCHANGED opVars
    /\ UNCHANGED <<tetrominoes, mode, gridSize, g, sorted, minSize, size, final,
                   attempts, result, err>>

\* Advance with loop conditions y < Size-Height and x < Size-Width
RECURSIVE AdvanceOffByOne(_, _)
AdvanceOffByOne(f, n) ==
    IF f.ri > Len(f.rotations) THEN f
    ELSE IF f.y >= n - f.rotations[f.ri].Height
         THEN AdvanceOffByOne([f EXCEPT !.ri = f.ri + 1, !.y = 0, !.x = 0], n)
    ELSE IF f.x >= n - f.rotations[f.ri].Width
         THEN AdvanceOffByOne([f EXCEPT !.y = f.y + 1, !.x = 0], n)
    ELSE f

\* the three nested for loops run forward to the next execution of the body
RECURSIVE Advance(_, _)
Advance(f, n) ==
    IF f.ri > Len(f.rotations) THEN f
    ELSE IF f.y > n - f.rotations[f.ri].Height
         THEN Advance([f EXCEPT !.ri = f.ri + 1, !.y = 0, !.x = 0], n)
    ELSE IF f.x > n - f.rotations[f.ri].Width
         THEN Advance([f EXCEPT !.y = f.y + 1, !.x = 0], n)
    ELSE f

\* all rotations and positions are used up: backtrack returns false
BacktrackExhausted ==
    /\ pc = "loop"
    /\ LET f == Advance(Top, g.Size)
       IN  /\ f.ri > Len(f.rotations)
           /\ stack' = Pop
           /\ retval' = FALSE
           /\ pc' = "ret"
    /\ UNCHANGED opVars
    /\ UNCHANGED <<tetrominoes, mode, gridSize, g, sorted, minSize, size, final,
                   attempts, result, err>>

\* the body finds that the rotation does not fit at (x, y), or the place fails
BacktrackSkip ==
    /\ pc = "loop"
    /\ LET f == Advance(Top, g.Size)
       IN  /\ f.ri <= Len(f.rotations)
           /\ IF CanPlaceTetromino(g, f.rotations[f.ri], f.x, f.y)
              THEN PlaceTetromino(g, f.rotations[f.ri], f.x, f.y).err
              ELSE TRUE
           /\ stack' = ReplaceTop([f EXCEPT !.x = f.x + 1])
    /\ UNCHANGED opVars
    /\ UNCHANGED <<tetrominoes, mode, pc, gridSize, g, sorted, retval, minSize,
                   size, final, attempts, result, err>>

\* the body places the rotation at (x, y) and calls backtrack for the next piece
BacktrackPlace ==
    /\ pc = "loop"
    /\ LET f == Advance(Top, g.Size)
       IN  /\ f.ri <= Len(f.rotations)
           /\ CanPlaceTetromino(g, f.rotations[f.ri], f.x, f.y)
           /\ LET placed == PlaceTetromino(g, f.rotations[f.ri], f.x, f.y)
              IN  /\ ~placed.err
                  /\ g' = placed.g
                  /\ stack' = Append(ReplaceTop([f EXCEPT !.rotations[f.ri] = placed.t]),
                                     NewFrame(f.index + 1))
           /\ pc' = "call"
    /\ UNCHANGED opVars
    /\ UNCHANGED <<tetrominoes, mode, gridSize, sorted, retval, minSize, size,
                   final, attempts, result, err>>

\* the recursive call returned true: this call returns true as well
BacktrackPropagate ==
    /\ pc = "ret"
    /\ stack # <<>>
    /\ retval
    /\ stack' = Pop
    /\ UNCHANGED opVars
    /\ UNCHANGED <<tetrominoes, mode, pc, gridSize, g, sorted, retval, minSize,
                   size, final, attempts, result, err>>

\* backtrack that goes on with the loop without removing the rotation
BacktrackUndoKeep ==
    /\ pc = "ret"
    /\ stack # <<>>
    /\ ~retval
    /\ g' = g
    /\ stack' = ReplaceTop([Top EXCEPT !.x = Top.x + 1])
    /\ pc' = "loop"
    /\ UNCHANGED opVars
    /\ UNCHANGED <<tetrominoes, mode, gridSize, sorted, retval, minSize, size,
                   final, attempts, result, err>>

\* backtrack that removes current, the piece of the list, not the rotation
BacktrackUndoCurrent ==
    /\ pc = "ret"
    /\ stack # <<>>
    /\ ~retval
    /\ g' = RemoveTetromino(g, sorted[Top.index + 1])
    /\ stack' = ReplaceTop([Top EXCEPT !.x = Top.x + 1])
    /\ pc' = "loop"
    /\ UNCHANGED opVars
    /\ UNCHANGED <<tetrominoes, mode, gridSize, sorted, retval, minSize, size,
                   final, attempts, result, err>>

\* the recursive call returned false: remove the rotation, go on with the loop
BacktrackUndo ==
    /\ pc = "ret"
    /\ stack # <<>>
    /\ ~retval
    /\ g' = RemoveTetromino(g, Top.rotations[Top.ri])
    /\ stack' = ReplaceTop([Top EXCEPT !.x = Top.x + 1])
    /\ pc' = "loop"
    /\ UNCHANGED opVars
    /\ UNCHANGED <<tetrominoes, mode, gridSize, sorted, retval, minSize, size,
                   final, attempts, result, err>>

\* a SolveTetris called by the caller returns its Result
SolveTetrisReturn ==
    /\ pc = "ret"
    /\ stack = <<>>
    /\ mode = "tetris"
    /\ result' = SolveTetrisResult
    /\ err' = FALSE
    /\ pc' = "done"
    /\ UNCHANGED opVars
    /\ UNCHANGED <<tetrominoes, mode, gridSize, g, sorted, stack, retval, minSize,
                   size, final, attempts>>

\* a SolveTetris called by SolveOptimal succeeded, or it was the last attempt
SolveOptimalReturn ==
    /\ pc = "ret"
    /\ stack = <<>>
    /\ mode = "optimal"
    /\ final \/ retval
    /\ attempts' = Append(attempts, [size |-> gridSize, success |-> retval])
    /\ result' = SolveTetrisResult
    /\ err' = FALSE
    /\ pc' = "done"
    /\ UNCHANGED opVars
    /\ UNCHANGED <<tetrominoes, mode, gridSize, g, sorted, stack, retval, minSize,
                   size, final>>

\* SolveOptimal whose loop goes on to the next size after a success as well
SolveOptimalNextNoStop ==
    /\ pc = "ret"
    /\ stack = <<>>
    /\ mode = "optimal"
    /\ ~final
    /\ attempts' = Append(attempts, [size |-> gridSize, success |-> retval])
    /\ size' = size + 1
    /\ IF size' <= minSize + 4
       THEN /\ final' = FALSE
            /\ BeginSolveTetris(size')
       ELSE /\ final' = TRUE
            /\ BeginSolveTetris(minSize + 4)
    /\ UNCHANGED opVars
    /\ UNCHANGED <<tetrominoes, mode, minSize>>

\* SolveOptimal whose last attempt uses the loop variable: minSize+5
SolveOptimalNextWider ==
    /\ pc = "ret"
    /\ stack = <<>>
    /\ mode = "optimal"
    /\ ~final
    /\ ~retval
    /\ attempts' = Append(attempts, [size |-> gridSize, success |-> retval])
    /\ size' = size + 1
    /\ IF size' <= minSize + 4
       THEN /\ final' = FALSE
            /\ BeginSolveTetris(size')
       ELSE /\ final' = TRUE
            /\ BeginSolveTetris(size')
    /\ UNCHANGED opVars
    /\ UNCHANGED <<tetrominoes, mode, minSize>>

\* a SolveTetris called in the loop of SolveOptimal failed: the next size, or,
\* when the loop is over, the last attempt at minSize+4
SolveOptimalNext ==
    /\ pc = "ret"
    /\ stack = <<>>
    /\ mode = "optimal"
    /\ ~final
    /\ ~retval
    /\ attempts' = Append(attempts, [size |-> gridSize, success |-> retval])
    /\ size' = size + 1
    /\ IF size' <= minSize + 4
       THEN /\ final' = FALSE
            /\ BeginSolveTetris(size')
       ELSE /\ final' = TRUE
            /\ BeginSolveTetris(minSize + 4)
    /\ UNCHANGED opVars
    /\ UNCHANGED <<tetrominoes, mode, minSize>>

Next ==
    \/ CallCalculateMinSquareSize
    \/ CallSolveTetris
    \/ CallSolveOptimal
    \/ BacktrackEnter
    \/ BacktrackExhausted
    \/ BacktrackSkip
    \/ BacktrackPlace
    \/ BacktrackPropagate
    \/ BacktrackUndo
    \/ SolveTetrisReturn
    \/ SolveOptimalReturn
    \/ SolveOptimalNext

Spec == Init /\ [][Next]_vars

(* ---------------------------------------------------------------------- *)
(* Direct calls of the tetromino and grid operations                       *)
(* ---------------------------------------------------------------------- *)

\* the caller holds one piece labelled A and has made no call yet
OpsInit ==
    /\ tetrominoes = <<>>
    /\ mode = "idle"
    /\ pc = "idle"
    /\ gridSize = 0
    /\ g = Nil
    /\ sorted = <<>>
    /\ stack = <<>>
    /\ retval = FALSE
    /\ minSize = 0
    /\ size = 0
    /\ final = FALSE
    /\ attempts = <<>>
    /\ result = Nil
    /\ err = FALSE
    /\ piece \in PiecesAt(1)
    /\ built = piece
    /\ board = Nil
    /\ turns = 0
    /\ last = NoCall
    /\ stage = "start"

\* the record of a call made in the current state
Called(op, x, y, ret, e, ts) ==
    [op |-> op, x |-> x, y |-> y, ret |-> ret, err |-> e,
     g0 |-> board, t0 |-> piece, ts |-> ts, out |-> <<>>,
     before |-> [op |-> last.op, x |-> last.x, y |-> last.y, ret |-> last.ret,
                 err |-> last.err, g0 |-> last.g0, t0 |-> last.t0]]

\* the pieces the caller compares its piece with: the piece as built, and a
\* square piece with the same label
EquivalenceProbes ==
    {built, NewTetromino(built.ID, ShapeGrids[3])}

\* the caller calls piece.Rotate90(), which turns the piece in place
CallRotate90 ==
    /\ stage \in {"start", "turning"}
    /\ turns < MaxTurns
    /\ piece' = Rotate90(piece)
    /\ turns' = turns + 1
    /\ last' = Called("Rotate90", 0, 0, FALSE, NoError, <<>>)
    /\ stage' = "turning"
    /\ UNCHANGED <<board, built>>
    /\ UNCHANGED solverVars

\* the caller asks piece.IsEquivalent(other)
CallIsEquivalent ==
    /\ stage = "turning"
    /\ \E other \in EquivalenceProbes :
          last' = Called("IsEquivalent", 0, 0, IsEquivalent(piece, other),
                         NoError, <<other>>)
    /\ UNCHANGED <<board, piece, built, turns, stage>>
    /\ UNCHANGED solverVars

\* the anchors the caller tries on grid gr: one step outside the grid at the
\* top and the left, up to the last row and column
Anchors(gr) == (0 - 1)..(gr.Size - 1)

\* a label of another piece
OtherLabel == Labels[2]

\* t turned by n quarter turns
RECURSIVE Turned(_, _)
Turned(t, n) == IF n = 0 THEN t ELSE Rotate90(Turned(t, n - 1))

\* the pieces the caller compares shape keys with: every definition under
\* another label, in every orientation, with the points in the opposite order
\* and another anchor
KeyProbes ==
    {LET t == Turned(NewTetromino(OtherLabel, ShapeGrids[k]), n)
     IN  [t EXCEPT !.Points = [i \in 1..Len(t.Points) |->
                                  t.Points[Len(t.Points) + 1 - i]],
                   !.Position = Pt(2, 1)] :
        k \in 1..Len(ShapeGrids), n \in 0..3}

\* the caller takes piece.ShapeKey() and other.ShapeKey()
CallShapeKey ==
    /\ stage \in {"start", "turning"}
    /\ \E other \in KeyProbes :
          last' = [Called("ShapeKey", 0, 0, FALSE, NoError, <<other>>)
                      EXCEPT !.out = <<ShapeKey(piece), ShapeKey(other)>>]
    /\ stage' = "end"
    /\ UNCHANGED <<board, piece, built, turns>>
    /\ UNCHANGED solverVars

\* the caller makes its grid: NewGrid(sz)
CallNewGrid ==
    /\ stage = "start"
    /\ \E sz \in (0 - 1)..MaxBoardSize :
          LET gr == NewGrid(sz)
          IN  /\ board' = gr
              /\ last' = Called("NewGrid", sz, 0, FALSE,
                                IF gr = Nil THEN "invalid size" ELSE NoError, <<>>)
              /\ stage' = IF gr = Nil THEN "end" ELSE "grid"
    /\ UNCHANGED <<piece, built, turns>>
    /\ UNCHANGED solverVars

\* the caller writes one cell of the fresh grid: board.SetCell(x, y, value)
CallSetCell ==
    /\ stage = "grid"
    /\ \E x \in Anchors(board), y \in Anchors(board), value \in {piece.ID, OtherLabel} :
          LET set == SetCell(board, x, y, value)
          IN  /\ board' = set.g
              /\ last' = Called("SetCell", x, y, FALSE, set.err, <<>>)
    /\ stage' = "preset"
    /\ UNCHANGED <<piece, built, turns>>
    /\ UNCHANGED solverVars

\* CanPlaceTetromino that leaves the anchor it tried in the piece
CallCanPlaceTetrominoMoving ==
    /\ stage \in {"grid", "preset", "placed", "asked"}
    /\ \E x \in Anchors(board), y \in Anchors(board) :
          /\ stage = "asked" => (x = last.x /\ y = last.y)
          /\ piece' = SetPosition(piece, x, y)
          /\ last' = Called("CanPlaceTetromino", x, y,
                            CanPlaceTetromino(board, piece, x, y), NoError, <<>>)
    /\ stage' = "asked"
    /\ UNCHANGED <<board, built, turns>>
    /\ UNCHANGED solverVars

\* the caller asks board.CanPlaceTetromino(piece, x, y), and then asks the
\* same question again
CallCanPlaceTetromino ==
    /\ stage \in {"grid", "preset", "placed", "asked"}
    /\ \E x \in Anchors(board), y \in Anchors(board) :
          /\ stage = "asked" => (x = last.x /\ y = last.y)
          /\ last' = Called("CanPlaceTetromino", x, y,
                            CanPlaceTetromino(board, piece, x, y), NoError, <<>>)
    /\ stage' = "asked"
    /\ UNCHANGED <<board, piece, built, turns>>
    /\ UNCHANGED solverVars

\* the caller calls board.PlaceTetromino(piece, x, y), on a board without the
\* piece or once more after it has placed the piece
CallPlaceTetromino ==
    /\ stage \in {"grid", "preset", "placed"}
    /\ \E x \in Anchors(board), y \in Anchors(board) :
          LET placed == PlaceTetromino(board, piece, x, y)
          IN  /\ board' = placed.g
              /\ piece' = placed.t
              /\ last' = Called("PlaceTetromino", x, y, FALSE,
                                IF placed.err THEN "cannot place" ELSE NoError, <<>>)
              /\ stage' = IF placed.err THEN "refused"
                          ELSE IF stage = "placed" THEN "end" ELSE "placed"
    /\ UNCHANGED <<built, turns>>
    /\ UNCHANGED solverVars

\* the caller moves the piece's anchor to a corner of the range of anchors:
\* piece.SetPosition(x, y)
CallSetPosition ==
    /\ stage \in {"grid", "preset", "placed"}
    /\ \E x \in {0 - 1, board.Size - 1}, y \in {0 - 1, board.Size - 1} :
          /\ piece' = SetPosition(piece, x, y)
          /\ last' = Called("SetPosition", x, y, FALSE, NoError, <<>>)
    /\ stage' = "moved"
    /\ UNCHANGED <<board, built, turns>>
    /\ UNCHANGED solverVars

\* the caller calls board.RemoveTetromino(piece)
CallRemoveTetromino ==
    /\ stage \in {"grid", "preset", "placed", "moved", "refused"}
    /\ board' = RemoveTetromino(board, piece)
    /\ last' = Called("RemoveTetromino", 0, 0, FALSE, NoError, <<>>)
    /\ stage' = "removed"
    /\ UNCHANGED <<piece, built, turns>>
    /\ UNCHANGED solverVars

\* the piece lists the caller validates its grid against: its piece alone, and
\* its piece with a square piece of another label before or after it
ValidationLists ==
    LET other == NewTetromino(OtherLabel, ShapeGrids[3])
    IN  {<<piece>>, <<piece, other>>, <<other, piece>>}

\* the caller calls ValidateSolution(board, ts)
CallValidateSolution ==
    /\ stage \in {"grid", "preset", "placed", "removed"}
    /\ \E ts \in ValidationLists :
          last' = Called("ValidateSolution", 0, 0, FALSE,
                         ValidateSolution(board, ts), ts)
    /\ stage' = "end"
    /\ UNCHANGED <<board, piece, built, turns>>
    /\ UNCHANGED solverVars

\* the caller prints its grid: board.String()
CallString ==
    /\ stage \in {"grid", "preset", "placed", "removed"}
    /\ last' = [Called("String", 0, 0, FALSE, NoError, <<>>)
                    EXCEPT !.out = String(board)]
    /\ stage' = "end"
    /\ UNCHANGED <<board, piece, built, turns>>
    /\ UNCHANGED solverVars

OpsNext ==
    \/ CallRotate90
    \/ CallIsEquivalent
    \/ CallNewGrid
    \/ CallSetCell
    \/ CallCanPlaceTetromino
    \/ CallPlaceTetromino
    \/ CallSetPosition
    \/ CallRemoveTetromino
    \/ CallValidateSolution
    \/ CallString
    \/ CallShapeKey

OpsSpec == OpsInit /\ [][OpsNext]_vars

(* ---------------------------------------------------------------------- *)
(* Reference definitions for the properties                                *)
(* ---------------------------------------------------------------------- *)

CellSet(t) == Range(t.Points)

GridCells(n) == {Pt(x, y) : x \in 0..(n - 1), y \in 0..(n - 1)}

\* the cell set S turned by k quarter turns about the origin
Turn(S, k) ==
    CASE k = 0 -> S
      [] k = 1 -> {Pt(p.Y, 0 - p.X) : p \in S}
      [] k = 2 -> {Pt(0 - p.X, 0 - p.Y) : p \in S}
      [] k = 3 -> {Pt(0 - p.Y, p.X) : p \in S}

\* the cell set S shifted into the corner of the quadrant
Cornered(S) ==
    LET mx == MinOf({p.X : p \in S})
        my == MinOf({p.Y : p \in S})
    IN  {Pt(p.X - mx, p.Y - my) : p \in S}

Shifted(S, ax, ay) == {Pt(p.X + ax, p.Y + ay) : p \in S}

\* the k-th orientation of piece t as a cell set in its local frame
Orientation(t, k) == Cornered(Turn(CellSet(t), k))

\* the cell sets piece t can cover on the n x n grid: every orientation at
\* every anchor that keeps it inside the grid
Placements(t, n) ==
    {c \in {Shifted(Orientation(t, k), a[1], a[2]) :
                k \in 0..3, a \in (0..(n - 1)) \X (0..(n - 1))} :
        c \subseteq GridCells(n)}

\* pieces i.. can take pairwise disjoint cell sets, disjoint from the occupied
\* cells, one from each of their sets of placements
RECURSIVE FitsFrom(_, _, _)
FitsFrom(placements, i, occupied) ==
    \/ i > Len(placements)
    \/ \E c \in placements[i] :
          /\ c \cap occupied = {}
          /\ FitsFrom(placements, i + 1, occupied \cup c)

\* some choice of one rotation and one anchor per piece packs ts into n x n
ExistsPacking(ts, n) ==
    /\ 4 * Len(ts) <= n * n
    /\ LET placements == [i \in 1..Len(ts) |-> Placements(ts[i], n)]
       IN  /\ \A i \in 1..Len(ts) : placements[i] # {}
           /\ FitsFrom(placements, 1, {})

\* the cells of grid gr that carry label id
CellsOf(gr, id) == {p \in GridCells(gr.Size) : gr.Cells[p.Y][p.X] = id}

IDs(ts) == {ts[i].ID : i \in 1..Len(ts)}

SolveTetrisDone == pc = "done" /\ mode = "tetris"

SolveOptimalDone == pc = "done" /\ mode = "optimal"

Succeeded == result # Nil /\ result.Success

(* ---------------------------------------------------------------------- *)
(* Properties                                                              *)
(* ---------------------------------------------------------------------- *)

\* C1 (as stated): for any piece list and any n >= 1, SolveTetris returns
\* Success=true if and only if some choice of one rotation and one anchor per
\* piece packs the pieces into the n x n grid without overlap.
C1_AnyList ==
    (SolveTetrisDone /\ gridSize >= 1)
        => (result # Nil /\ (result.Success <=> ExistsPacking(tetrominoes, gridSize)))

\* C1 (amended): for any non-empty piece list and any n >= 1, SolveTetris
\* returns Success=true if and only if such a packing exists; for the empty
\* list it returns Success=false.
C1_NonEmptyList ==
    (SolveTetrisDone /\ gridSize >= 1)
        => /\ result # Nil
           /\ ~err
           /\ IF Len(tetrominoes) = 0
              THEN ~result.Success
              ELSE result.Success <=> ExistsPacking(tetrominoes, gridSize)

\* C1 witness: a SolveTetris of three pieces on the 4 x 4 grid found a packing
C1_Witness ==
    /\ SolveTetrisDone
    /\ Len(tetrominoes) = 3
    /\ Succeeded
    /\ gridSize = 4

\* C2: when SolveOptimal returns Success=true with Size s, the pieces cannot
\* be packed into any square grid of side smaller than s.
C2_SmallestSquare ==
    (SolveOptimalDone /\ Succeeded)
        => \A s \in 1..(result.Size - 1) : ~ExistsPacking(tetrominoes, s)

\* C2 witness: a success that needed a size above the first one tried
C2_Witness ==
    /\ SolveOptimalDone
    /\ Succeeded
    /\ Len(tetrominoes) = 2
    /\ result.Size > minSize

\* C3: in every successful result each input piece's label is on the grid in
\* exactly 4 cells, no other label is on it, and ValidateSolution accepts it.
C3_ValidResult ==
    (pc = "done" /\ mode \in {"tetris", "optimal"} /\ Succeeded)
        => /\ \A i \in 1..Len(tetrominoes) :
                 Cardinality(CellsOf(result.Grid, tetrominoes[i].ID)) = 4
           /\ \A p \in GridCells(result.Grid.Size) :
                 result.Grid.Cells[p.Y][p.X] \in IDs(tetrominoes) \cup {EmptyCell}
           /\ ValidateSolution(result.Grid, tetrominoes) = NoError

\* C3 witness: a successful direct SolveTetris of two pieces
C3_Witness ==
    /\ SolveTetrisDone
    /\ Succeeded
    /\ Len(tetrominoes) = 2
    /\ gridSize = 4

\* C4: after a successful SolveOptimal on N pieces with grid size s, the
\* returned grid has s*s - 4*N empty cells.
C4_CountEmpty ==
    (SolveOptimalDone /\ Succeeded)
        => CountEmpty(result.Grid)
              = result.Size * result.Size - 4 * Len(tetrominoes)

\* C4 witness: a successful SolveOptimal of two pieces that leaves cells empty
C4_Witness ==
    /\ SolveOptimalDone
    /\ Succeeded
    /\ Len(tetrominoes) = 2
    /\ CountEmpty(result.Grid) > 0

\* C5: for non-empty input SolveOptimal runs the search at minSize, minSize+1,
\* ..., minSize+4 in ascending order and stops at the first size whose search
\* succeeds: the result it returns is that attempt's, every earlier attempt
\* failed and nothing is attempted after a success.
C5_EscalationOrder ==
    mode = "optimal"
        => /\ \A i \in 1..Len(attempts) :
                 i <= 5 => attempts[i].size = minSize + (i - 1)
           /\ \A i \in 1..(Len(attempts) - 1) : ~attempts[i].success
           /\ (pc \in {"call", "loop", "ret"} /\ ~final)
                 => (gridSize = minSize + Len(attempts) /\ Len(attempts) < 5)
           /\ (pc = "done" /\ Succeeded)
                 => /\ Len(attempts) \in 1..5
                    /\ attempts[Len(attempts)].success
                    /\ result.Size = attempts[Len(attempts)].size
                    /\ result.Grid = g

\* C5 witness: SolveOptimal succeeded at the second size of the window
C5_Witness ==
    /\ SolveOptimalDone
    /\ Succeeded
    /\ Len(attempts) = 2
    /\ result.Size = minSize + 1

\* C6: when the search fails at all five sizes, SolveOptimal makes one more
\* attempt at minSize+4 and returns it with Success=false, Size=minSize+4 and
\* a nil error; for non-empty input SolveOptimal never returns an error and
\* never asks for a grid of non-positive size.
C6_BoundedFailure ==
    (mode = "optimal" /\ Len(tetrominoes) > 0)
        => /\ ~err
           /\ gridSize >= 1
           /\ pc = "done" => result # Nil
           /\ (pc = "done" /\ Len(attempts) >= 5
                 /\ \A i \in 1..5 : ~attempts[i].success)
                 => /\ Len(attempts) = 6
                    /\ attempts[6].size = minSize + 4
                    /\ ~result.Success
                    /\ result.Size = minSize + 4
                    /\ result.Grid = g

\* C6 witness: SolveOptimal returned after five failures and the last attempt
C6_Witness ==
    /\ SolveOptimalDone
    /\ Len(attempts) = 6
    /\ ~Succeeded
    /\ ~err

\* C7: with an empty piece list SolveOptimal returns Success=false and Size=0
\* with no error and without creating a grid.
C7_EmptyInput ==
    (SolveOptimalDone /\ Len(tetrominoes) = 0)
        => /\ result = [Grid |-> Nil, Success |-> FALSE, Size |-> 0]
           /\ ~err
           /\ g = Nil
           /\ attempts = <<>>

\* C7 witness: SolveOptimal has returned for the empty list
C7_Witness ==
    /\ SolveOptimalDone
    /\ tetrominoes = <<>>
    /\ result # Nil

\* C8: for exactly one piece SolveOptimal returns Success=true with Size the
\* larger of the piece's Width and Height, and at least 2: 4 for the straight
\* piece, 3 for the L piece.
C8_SinglePiece ==
    (SolveOptimalDone /\ Len(tetrominoes) = 1)
        => /\ Succeeded
           /\ result.Size = MaxOf({2, tetrominoes[1].Width, tetrominoes[1].Height})
           /\ tetrominoes[1] = NewTetromino("A", ShapeGrids[1]) => result.Size = 4
           /\ tetrominoes[1] = NewTetromino("A", ShapeGrids[4]) => result.Size = 3

\* C8 witness: SolveOptimal has returned for the single L piece
C8_Witness ==
    /\ SolveOptimalDone
    /\ tetrominoes = <<NewTetromino("A", ShapeGrids[4])>>
    /\ Succeeded

\* C9: CalculateMinSquareSize returns 0 for no pieces, the least s with
\* s*s >= 4*N for N >= 2 pieces, and max(2, Width, Height) for one piece
\* (4 for the straight piece).
C9_MinSquareSize ==
    (pc = "done" /\ mode = "minsize")
        => LET N == Len(tetrominoes)
           IN  /\ N = 0 => minSize = 0
               /\ N >= 2 => /\ minSize * minSize >= 4 * N
                            /\ (minSize - 1) * (minSize - 1) < 4 * N
                            /\ minSize >= 1
               /\ N = 1 => minSize = MaxOf({2, tetrominoes[1].Width,
                                               tetrominoes[1].Height})
               /\ tetrominoes = <<NewTetromino("A", ShapeGrids[1])>> => minSize = 4

\* C9 witness: CalculateMinSquareSize has returned for the single straight piece
C9_Witness ==
    /\ pc = "done"
    /\ mode = "minsize"
    /\ tetrominoes = <<NewTetromino("A", ShapeGrids[1])>>
    /\ minSize = 4

\* the quarter turns of t whose cell set no earlier quarter turn has
KeptTurns(t) ==
    {k \in 0..3 : \A j \in 0..(k - 1) : Orientation(t, j) # Orientation(t, k)}

\* the i-th of them, counting from 1
KeptTurn(t, i) ==
    CHOOSE k \in KeptTurns(t) : Cardinality({j \in KeptTurns(t) : j < k}) = i - 1

\* a backtrack call has just received the rotations of its piece
RotationsGenerated ==
    /\ pc = "loop"
    /\ Top.ri = 1
    /\ Top.y = 0
    /\ Top.x = 0

\* C10: GenerateRotations returns 1 to 4 orientations, each of 4 cells with
\* the source's label and pairwise distinct shape keys: the 0, 90, 180 and 270
\* degree rotations of the source in this order without those whose shape
\* came earlier, the first being the source orientation itself.
C10_GenerateRotations ==
    RotationsGenerated =>
        LET src  == sorted[Top.index + 1]
            rots == Top.rotations
        IN  /\ Len(rots) \in 1..4
            /\ \A i \in 1..Len(rots) :
                  /\ Len(rots[i].Points) = 4
                  /\ Cardinality(CellSet(rots[i])) = 4
                  /\ rots[i].ID = src.ID
            /\ \A i, j \in 1..Len(rots) :
                  i # j => ShapeKey(rots[i]) # ShapeKey(rots[j])
            /\ Len(rots) = Cardinality(KeptTurns(src))
            /\ \A i \in 1..Len(rots) :
                  CellSet(rots[i]) = Orientation(src, KeptTurn(src, i))
            /\ rots[1].Points = src.Points

\* C10 witness: the second call of a search has received the two orientations
\* of a straight piece
C10_Witness ==
    /\ RotationsGenerated
    /\ Len(stack) = 2
    /\ Len(Top.rotations) = 2
    /\ Top.rotations[1].Width # Top.rotations[2].Width

\* the definitions of ShapeGrids by the kind of piece they draw
SquareShapes == {3}

StraightShapes == {1, 2}

SkewShapes == {6, 7}

\* piece t was built from definition k of ShapeGrids
IsShape(t, k) == t.Points = NewTetromino(t.ID, ShapeGrids[k]).Points

\* the piece whose rotations the innermost backtrack call generated
EnteredPiece == sorted[Top.index + 1]

\* C11 (as stated): GenerateRotations returns exactly 1 orientation for the
\* square, exactly 2 for the straight piece and exactly 4 for each of the L, J,
\* S, Z and T pieces.
C11_FourForSkew ==
    RotationsGenerated =>
        \A k \in 1..Len(ShapeGrids) :
            IsShape(EnteredPiece, k) =>
                Len(Top.rotations) =
                    IF k \in SquareShapes THEN 1
                    ELSE IF k \in StraightShapes THEN 2
                    ELSE 4

\* C11 (amended): GenerateRotations returns exactly 1 orientation for the
\* square, exactly 2 for the straight piece and for the S and Z pieces (a half
\* turn maps each of them onto itself), and exactly 4 for the L, J and T pieces.
C11_RotationCounts ==
    RotationsGenerated =>
        \A k \in 1..Len(ShapeGrids) :
            IsShape(EnteredPiece, k) =>
                Len(Top.rotations) =
                    IF k \in SquareShapes THEN 1
                    ELSE IF k \in StraightShapes \cup SkewShapes THEN 2
                    ELSE 4

\* the rotations of a Z piece have been generated: there are two of them
C11_Witness ==
    /\ RotationsGenerated
    /\ \E k \in SkewShapes : IsShape(EnteredPiece, k)
    /\ Len(Top.rotations) = 2

\* piece t has the cells of one of the definitions of ShapeGrids
IsBuilt(t) == \E k \in 1..Len(ShapeGrids) : IsShape(t, k)

\* the caller has made a whole number of full turns, at least one
FullTurn == turns > 0 /\ turns % 4 = 0

\* C12: applying Rotate90 four times yields a piece with the same shapeKey,
\* Width and Height as the original (the same cell set), and IsEquivalent
\* reports the result equivalent to the original.
C12_FourTurns ==
    FullTurn =>
        /\ ShapeKey(piece) = ShapeKey(built)
        /\ piece.Width = built.Width
        /\ piece.Height = built.Height
        /\ CellSet(piece) = CellSet(built)
        /\ (last.op = "IsEquivalent" /\ last.ts = <<built>>) => last.ret

\* an L piece was turned four times and compared with the piece as built
C12_Witness ==
    /\ turns = 4
    /\ IsShape(built, 4)
    /\ last.op = "IsEquivalent"
    /\ last.ts = <<built>>
    /\ last.ret

\* C13: after any number of Rotate90 calls on a piece built by NewTetromino
\* the piece has exactly 4 distinct cells, no negative coordinate, minimum
\* x = 0 and minimum y = 0, its label unchanged, Width = max x + 1 and
\* Height = max y + 1.
C13_PieceInvariant ==
    (stage \in {"start", "turning"} /\ piece # Nil /\ IsBuilt(built)) =>
        LET xs == {p.X : p \in CellSet(piece)}
            ys == {p.Y : p \in CellSet(piece)}
        IN  /\ Len(piece.Points) = 4
            /\ Cardinality(CellSet(piece)) = 4
            /\ \A p \in CellSet(piece) : p.X >= 0 /\ p.Y >= 0
            /\ MinOf(xs) = 0
            /\ MinOf(ys) = 0
            /\ piece.ID = built.ID
            /\ piece.Width = MaxOf(xs) + 1
            /\ piece.Height = MaxOf(ys) + 1

\* a T piece after three quarter turns: two cells wide, three cells high
C13_Witness ==
    /\ turns = 3
    /\ IsShape(built, 8)
    /\ piece.Width = 2
    /\ piece.Height = 3

\* the cells of grid gr that are not empty
Occupied(gr) == {p \in GridCells(gr.Size) : gr.Cells[p.Y][p.X] # EmptyCell}

\* the most recent call was a RemoveTetromino right after a successful place
RemovedAfterPlace ==
    /\ last.op = "RemoveTetromino"
    /\ last.before.op = "PlaceTetromino"
    /\ last.before.err = NoError

\* C14: for every board, piece and anchor for which PlaceTetromino succeeds,
\* a RemoveTetromino of the same piece right afterwards leaves every cell of
\* the board as it was before the place.
C14_PlaceRemove == RemovedAfterPlace => board = last.before.g0

\* a piece was placed away from the corner on a board with an occupied cell
\* and removed again
C14_Witness ==
    /\ RemovedAfterPlace
    /\ piece.Position # Pt(0, 0)
    /\ Occupied(last.before.g0) # {}
    /\ Occupied(last.g0) # Occupied(board)

\* C15: a CanPlaceTetromino call changes neither a cell of the board nor the
\* piece (cells, anchor, dimensions), and the same call repeated with no
\* place or remove in between returns the same result.
C15_CanPlacePure ==
    last.op = "CanPlaceTetromino" =>
        /\ board = last.g0
        /\ piece = last.t0
        /\ (/\ last.before.op = "CanPlaceTetromino"
            /\ last.before.x = last.x
            /\ last.before.y = last.y) => last.ret = last.before.ret

\* the same question was asked twice about a placed piece, with the answer
\* that the piece does not fit
C15_Witness ==
    /\ last.op = "CanPlaceTetromino"
    /\ last.before.op = "CanPlaceTetromino"
    /\ ~last.ret
    /\ piece.Position # Pt(0, 0)
    /\ Occupied(board) # {}

\* the cells the piece of the most recent call covers at the anchor of the call
AskedCells == Shifted(CellSet(last.t0), last.x, last.y)

\* C16: CanPlaceTetromino(piece, x, y) returns true if and only if each of the
\* piece's cells translated by (x, y) lies inside the grid and is empty; it
\* returns false for a piece over an occupied cell or past an edge, negative
\* anchors included.
C16_CanPlaceIff ==
    last.op = "CanPlaceTetromino" =>
        /\ last.ret <=>
               \A p \in AskedCells :
                   /\ 0 <= p.X /\ p.X < last.g0.Size
                   /\ 0 <= p.Y /\ p.Y < last.g0.Size
                   /\ last.g0.Cells[p.Y][p.X] = EmptyCell
        /\ AskedCells \cap Occupied(last.g0) # {} => ~last.ret
        /\ ~(AskedCells \subseteq GridCells(last.g0.Size)) => ~last.ret

\* the piece lies inside the grid but over an occupied cell: the answer is no
C16_Witness ==
    /\ last.op = "CanPlaceTetromino"
    /\ AskedCells \subseteq GridCells(last.g0.Size)
    /\ AskedCells \cap Occupied(last.g0) # {}
    /\ ~last.ret

\* C17: PlaceTetromino(piece, x, y) returns an error exactly when
\* CanPlaceTetromino(piece, x, y) is false; otherwise it writes the piece's
\* label into exactly the piece's 4 absolute cells, leaves every other cell
\* unchanged and records (x, y) as the piece's anchor, so no occupied cell is
\* overwritten.
C17_Place ==
    last.op = "PlaceTetromino" =>
        /\ last.err # NoError <=>
               ~CanPlaceTetromino(last.g0, last.t0, last.x, last.y)
        /\ last.err = NoError =>
               /\ Cardinality(AskedCells) = 4
               /\ AskedCells \subseteq GridCells(last.g0.Size)
               /\ AskedCells \cap Occupied(last.g0) = {}
               /\ board.Size = last.g0.Size
               /\ \A p \in GridCells(board.Size) :
                      board.Cells[p.Y][p.X] =
                          IF p \in AskedCells THEN last.t0.ID
                          ELSE last.g0.Cells[p.Y][p.X]
               /\ piece.Position = Pt(last.x, last.y)
               /\ piece.Points = last.t0.Points

\* a piece was placed away from the corner next to a cell of another label
C17_Witness ==
    /\ last.op = "PlaceTetromino"
    /\ last.err = NoError
    /\ last.x > 0
    /\ \E p \in Occupied(last.g0) : last.g0.Cells[p.Y][p.X] = OtherLabel
    /\ Cardinality(Occupied(board)) = 5

\* the cells the piece of the most recent call covers at its recorded anchor
AnchoredCells ==
    Shifted(CellSet(last.t0), last.t0.Position.X, last.t0.Position.Y)

\* C18: RemoveTetromino(piece) empties every in-bounds cell among the piece's
\* cells translated by its recorded anchor, skips the cells outside the grid
\* without an error, and leaves every other cell of the board unchanged.
C18_Remove ==
    last.op = "RemoveTetromino" =>
        /\ last.err = NoError
        /\ board.Size = last.g0.Size
        /\ piece = last.t0
        /\ \A p \in GridCells(board.Size) :
               board.Cells[p.Y][p.X] =
                   IF p \in AnchoredCells THEN EmptyCell
                   ELSE last.g0.Cells[p.Y][p.X]

\* a piece partly outside the grid was removed: its occupied cells inside the
\* grid were emptied, an occupied cell elsewhere was kept
C18_Witness ==
    /\ last.op = "RemoveTetromino"
    /\ ~(AnchoredCells \subseteq GridCells(board.Size))
    /\ AnchoredCells \cap Occupied(last.g0) # {}
    /\ Occupied(board) # {}

\* C19: NewGrid(size) returns an error and no grid when size <= 0; for
\* size >= 1 it returns a grid with Size = size whose size x size cells are
\* all empty: IsEmpty holds of every in-bounds cell and CountEmpty = size*size.
C19_NewGrid ==
    last.op = "NewGrid" =>
        IF last.x <= 0
        THEN last.err # NoError /\ board = Nil
        ELSE /\ last.err = NoError
             /\ board # Nil
             /\ board.Size = last.x
             /\ DOMAIN board.Cells = 0..(last.x - 1)
             /\ \A y \in 0..(last.x - 1) :
                    /\ DOMAIN board.Cells[y] = 0..(last.x - 1)
                    /\ \A x \in 0..(last.x - 1) : IsEmpty(board, x, y)
             /\ CountEmpty(board) = last.x * last.x

\* NewGrid(0) returned an error and no grid
C19_Witness ==
    /\ last.op = "NewGrid"
    /\ last.x = 0
    /\ last.err # NoError
    /\ board = Nil

\* the number of cells of the validated grid that carry the label of piece i
\* of the validated list
CellCount(i) == Cardinality(CellsOf(last.g0, last.ts[i].ID))

\* the labels that occur on the validated grid
LabelsOnGrid == {last.g0.Cells[p.Y][p.X] : p \in Occupied(last.g0)}

\* some piece of the list has its label in no cell
SomeMissing == \E i \in 1..Len(last.ts) : CellCount(i) = 0

\* some piece of the list has its label in a number of cells other than 4
SomeMalformed == \E i \in 1..Len(last.ts) : CellCount(i) # 4

\* the grid carries more or fewer labels than the list has pieces
CountDiffers == Cardinality(LabelsOnGrid) # Len(last.ts)

\* C20 (as stated): ValidateSolution fails with the missing-piece error if
\* some input piece's label occurs in no cell, with the malformed-placement
\* error if some input piece's label occurs in a number of cells other than 4,
\* with the extra-pieces error if the number of distinct labels on the board
\* differs from the number of pieces, and returns nil exactly when none of
\* these holds (the conditions taken in the order given).
C20_ByCondition ==
    last.op = "ValidateSolution" =>
        last.err = IF SomeMissing THEN "not found"
                   ELSE IF SomeMalformed THEN "wrong block count"
                   ELSE IF CountDiffers THEN "wrong piece count"
                   ELSE NoError

\* the pieces of the list whose label is not in exactly 4 cells
Offenders == {i \in 1..Len(last.ts) : CellCount(i) # 4}

\* C20 (amended): ValidateSolution fails at the first piece, in input order,
\* whose label is not in exactly 4 cells: with the missing-piece error if the
\* label is in no cell, with the malformed-placement error otherwise.  With
\* no such piece it fails with the extra-pieces error if the number of
\* distinct labels on the board differs from the number of pieces.  It
\* returns nil exactly when none of the three conditions holds.
C20_FirstOffender ==
    last.op = "ValidateSolution" =>
        /\ last.err =
               IF Offenders # {}
               THEN IF CellCount(MinOf(Offenders)) = 0 THEN "not found"
                    ELSE "wrong block count"
               ELSE IF CountDiffers THEN "wrong piece count"
               ELSE NoError
        /\ last.err = NoError <=>
               ~SomeMissing /\ ~SomeMalformed /\ ~CountDiffers

\* the first piece of the list has its label in fewer than 4 cells, the
\* second piece is missing: the error names the first piece's block count
C20_Witness ==
    /\ last.op = "ValidateSolution"
    /\ Len(last.ts) = 2
    /\ CellCount(1) \in 1..3
    /\ CellCount(2) = 0
    /\ last.err = "wrong block count"

\* line y of the text of the most recent String call, without its last rune
Line(y) ==
    SubSeq(last.out, y * (last.g0.Size + 1) + 1, y * (last.g0.Size + 1) + last.g0.Size)

\* the rune that ends line y of that text
LineEnd(y) == last.out[(y + 1) * (last.g0.Size + 1)]

\* C21: String emits exactly Size lines, row y = 0 first, each line being the
\* row's Size cell labels in ascending x with '.' for empty cells and ending
\* in a newline; a piece placed at anchor (x, y) shows its cells from column x
\* of line y on.
C21_String ==
    last.op = "String" =>
        /\ Len(last.out) = last.g0.Size * (last.g0.Size + 1)
        /\ \A y \in 0..(last.g0.Size - 1) :
               /\ LineEnd(y) = Newline
               /\ \A x \in 0..(last.g0.Size - 1) :
                      /\ Line(y)[x + 1] # Newline
                      /\ Line(y)[x + 1] =
                             IF IsEmpty(last.g0, x, y) THEN "."
                             ELSE last.g0.Cells[y][x]
        /\ (last.before.op = "PlaceTetromino" /\ last.before.err = NoError) =>
               \A i \in 1..Len(piece.Points) :
                   Line(piece.Position.Y + piece.Points[i].Y)
                       [piece.Position.X + piece.Points[i].X + 1] = piece.ID

\* the grid was printed right after an L piece was placed off the corner next
\* to a cell of another label
C21_Witness ==
    /\ last.op = "String"
    /\ last.before.op = "PlaceTetromino"
    /\ last.before.err = NoError
    /\ IsShape(built, 4)
    /\ piece.Position = Pt(1, 0)
    /\ \E p \in Occupied(board) : board.Cells[p.Y][p.X] = OtherLabel

\* C22: two pieces have equal ShapeKey if and only if their local cell sets
\* are equal, whatever the order of their points, their labels and their
\* anchors; a piece and a rotation of it with a different cell set have
\* different keys.
C22_ShapeKey ==
    last.op = "ShapeKey" =>
        LET other == last.ts[1]
        IN  /\ last.out[1] = last.out[2] <=> CellSet(piece) = CellSet(other)
            /\ (/\ \E n \in 0..3 : CellSet(other) = Orientation(piece, n)
                /\ CellSet(other) # CellSet(piece)) => last.out[1] # last.out[2]

\* an L piece and the same cells under another label, in the opposite order
\* and at another anchor: the keys are equal
C22_Witness ==
    /\ last.op = "ShapeKey"
    /\ IsShape(piece, 4)
    /\ CellSet(last.ts[1]) = CellSet(piece)
    /\ last.ts[1].Points # piece.Points
    /\ last.ts[1].ID # piece.ID
    /\ last.ts[1].Position # piece.Position
    /\ last.out[1] = last.out[2]

\* the positions of the search for piece t on the n x n grid: the number r of
\* an orientation and an anchor that keeps the orientation inside the grid
Candidates(t, n) ==
    {c \in [r : 1..Cardinality(KeptTurns(t)), y : 0..n, x : 0..n] :
        LET cells == Orientation(t, KeptTurn(t, c.r))
        IN  /\ c.y <= n - (MaxOf({p.Y : p \in cells}) + 1)
            /\ c.x <= n - (MaxOf({p.X : p \in cells}) + 1)}

\* the cells piece t covers at position c
Cover(t, c) == Shifted(Orientation(t, KeptTurn(t, c.r)), c.x, c.y)

\* position d comes before position c in the order of the three loops
LexLess(d, c) ==
    \/ d.r < c.r
    \/ d.r = c.r /\ d.y < c.y
    \/ d.r = c.r /\ d.y = c.y /\ d.x < c.x

\* the cells of the returned grid that carry the labels of pieces 1..i of the
\* search order
CellsUpTo(i) == UNION {CellsOf(result.Grid, sorted[j].ID) : j \in 1..i}

\* pieces i.. of the search order can still be packed around the occupied cells
Completable(i, occupied) ==
    FitsFrom([j \in 1..Len(sorted) |-> Placements(sorted[j], gridSize)], i, occupied)

\* position d was open to piece i of the search order: it is free of the
\* cells of the earlier pieces and leaves room for the later ones
Open(i, d) ==
    /\ Cover(sorted[i], d) \cap CellsUpTo(i - 1) = {}
    /\ Completable(i + 1, CellsUpTo(i - 1) \cup Cover(sorted[i], d))

\* a search has returned a grid with all pieces on it
SearchSucceeded ==
    /\ pc = "done"
    /\ mode \in {"tetris", "optimal"}
    /\ Succeeded

\* C23: the search tries the rotations in GenerateRotations order and, per
\* rotation, the anchors with y ascending outside and x ascending inside over
\* 0 <= y <= size - height, 0 <= x <= size - width, and returns the first full
\* solution it reaches: the returned board is the first solution in the order
\* (piece index, rotation index, y, x).
C23_FirstSolution ==
    SearchSucceeded =>
        \A i \in 1..Len(sorted) :
            \E c \in Candidates(sorted[i], gridSize) :
                /\ Cover(sorted[i], c) = CellsOf(result.Grid, sorted[i].ID)
                /\ \A d \in Candidates(sorted[i], gridSize) :
                       LexLess(d, c) => ~Open(i, d)

\* a returned grid on which some piece passed over an earlier position that
\* was free, because the later pieces could not be packed around it
C23_Witness ==
    /\ SearchSucceeded
    /\ \E i \in 1..Len(sorted) :
          \E c \in Candidates(sorted[i], gridSize) :
              /\ Cover(sorted[i], c) = CellsOf(result.Grid, sorted[i].ID)
              /\ \E d \in Candidates(sorted[i], gridSize) :
                     /\ LexLess(d, c)
                     /\ Cover(sorted[i], d) \cap CellsUpTo(i - 1) = {}

\* backtrack has just been entered from a call that placed its piece
Recursed == pc = "call" /\ Len(stack) > 1

\* C24: before recursing into a placement of piece i of N the search takes
\* remainingPieces = N - i - 1 and the empty cells left after the placement,
\* CountEmpty() - 4, and skips the placement, without placing or recursing,
\* whenever fewer than remainingPieces * 4 cells would be left: every
\* recursive call finds room for the pieces still to place.
C24_Pruning ==
    Recursed => CountEmpty(g) >= (Len(sorted) - Top.index) * 4

\* backtrack has just been entered
Entered == pc = "call"

\* C25: every time backtrack is entered with index i the board carries
\* exactly the labels of the first i pieces of the search order, each in
\* exactly 4 cells, all other size*size - 4*i cells are empty, and no label of
\* a piece with index >= i is on the board.
C25_StackDiscipline ==
    Entered =>
        /\ \A j \in 1..Len(sorted) :
               Cardinality(CellsOf(g, sorted[j].ID)) =
                   IF j <= Top.index THEN 4 ELSE 0
        /\ CountEmpty(g) = g.Size * g.Size - 4 * Top.index
        /\ \A p \in Occupied(g) :
               \E j \in 1..Top.index : g.Cells[p.Y][p.X] = sorted[j].ID

\* backtrack is entered for the third of three pieces
C25_Witness ==
    /\ Entered
    /\ Len(sorted) = 3
    /\ Top.index = 2
    /\ CountEmpty(g) = g.Size * g.Size - 8

\* the empty board of size n with the rotations written that the calls of
\* frames, each waiting for its recursive call, have placed
RECURSIVE BoardOf(_, _)
BoardOf(frames, n) ==
    IF Len(frames) = 0 THEN NewGrid(n)
    ELSE LET f == frames[Len(frames)]
             below == BoardOf(SubSeq(frames, 1, Len(frames) - 1), n)
         IN  WriteCells(below, GetAbsolutePoints(f.rotations[f.ri]),
                        f.rotations[f.ri].ID)

\* C26: whenever a call of backtrack returns false, every cell of the board
\* is as it was at entry to that call (the board the waiting calls have
\* built), so a SolveTetris that returns Success=false returns a grid whose
\* cells are all empty; on the success path no placement is undone.
C26_UndoOnFailure ==
    /\ Entered => g = BoardOf(Pop, g.Size)
    /\ (pc = "ret" /\ ~retval) => g = BoardOf(stack, g.Size)
    /\ (pc = "done" /\ mode \in {"tetris", "optimal"} /\ result # Nil
            /\ result.Grid # Nil /\ ~result.Success) =>
           Occupied(result.Grid) = {}
    /\ (pc = "ret" /\ retval) =>
           \A j \in 1..Len(sorted) : Cardinality(CellsOf(g, sorted[j].ID)) = 4

\* the call for the third piece has returned false to a call that had placed
\* the second piece away from the corner
C26_Witness ==
    /\ pc = "ret"
    /\ ~retval
    /\ Len(stack) = 2
    /\ Top.x + Top.y > 0
    /\ CountEmpty(g) = g.Size * g.Size - 8

\* SolveTetris has just made its search order and called backtrack
SearchStarted == pc = "call" /\ Len(stack) = 1

\* piece a comes strictly before piece b under the key: larger area, then
\* larger Width, then larger Height
KeyBefore(a, b) ==
    \/ a.Width * a.Height > b.Width * b.Height
    \/ /\ a.Width * a.Height = b.Width * b.Height
       /\ a.Width > b.Width
    \/ /\ a.Width * a.Height = b.Width * b.Height
       /\ a.Width = b.Width
       /\ a.Height > b.Height

\* C27: SolveTetris places the pieces in an order that is a permutation of the
\* input sorted descending by bounding-box area, ties broken by descending
\* Width, then by descending Height: of two consecutive pieces of the order
\* the later one is never before the earlier one under this key.
C27_SearchOrder ==
    SearchStarted =>
        /\ Len(sorted) = Len(tetrominoes)
        /\ \E perm \in [1..Len(sorted) -> 1..Len(sorted)] :
               /\ \A i, j \in 1..Len(sorted) : i # j => perm[i] # perm[j]
               /\ \A i \in 1..Len(sorted) : sorted[i] = tetrominoes[perm[i]]
        /\ \A i \in 1..(Len(sorted) - 1) : ~KeyBefore(sorted[i + 1], sorted[i])

\* an L piece given before an S piece of the same area is searched after it
C27_Witness ==
    /\ SearchStarted
    /\ Len(tetrominoes) = 2
    /\ IsShape(tetrominoes[1], 4)
    /\ IsShape(tetrominoes[2], 6)
    /\ sorted[1] = tetrominoes[2]
    /\ sorted[2] = tetrominoes[1]

\* the mirror image of the cell set S, shifted into the corner
Mirrored(S) == Cornered({Pt(0 - p.X, p.Y) : p \in S})

\* the cell set c is orientation k of piece t moved to some anchor of the grid
IsTranslateOf(c, t, k, n) ==
    \E ax, ay \in 0..(n - 1) : c = Shifted(Orientation(t, k), ax, ay)

\* piece t is chiral: its mirror image is none of its orientations
Chiral(t) == \A k \in 0..3 : Mirrored(CellSet(t)) # Orientation(t, k)

\* C28: in every grid returned with Success = true the cells that carry a
\* piece's label are one of the quarter-turn orientations of that piece moved
\* to an anchor of the grid, never its mirror image or another shape, and the
\* cells of two different pieces are disjoint, so 4 cells per piece are taken.
C28_ShapePreserved ==
    SearchSucceeded =>
        /\ \A i \in 1..Len(tetrominoes) :
               /\ \E k \in 0..3 :
                      IsTranslateOf(CellsOf(result.Grid, tetrominoes[i].ID),
                                    tetrominoes[i], k, result.Grid.Size)
               /\ Chiral(tetrominoes[i]) =>
                      \A k \in 0..3, ax, ay \in 0..(result.Grid.Size - 1) :
                          CellsOf(result.Grid, tetrominoes[i].ID) #
                              Shifted(Cornered(Turn(Mirrored(CellSet(tetrominoes[i])), k)),
                                      ax, ay)
        /\ \A i, j \in 1..Len(tetrominoes) :
               i # j => CellsOf(result.Grid, tetrominoes[i].ID) \cap
                        CellsOf(result.Grid, tetrominoes[j].ID) = {}
        /\ Cardinality(UNION {CellsOf(result.Grid, tetrominoes[i].ID) :
                                  i \in 1..Len(tetrominoes)}) = 4 * Len(tetrominoes)

\* a chiral piece lies on a returned grid turned and away from the corner
C28_Witness ==
    /\ SearchSucceeded
    /\ \E i \in 1..Len(tetrominoes) :
           /\ Chiral(tetrominoes[i])
           /\ \E k \in 1..3 :
                  /\ Orientation(tetrominoes[i], k) # Orientation(tetrominoes[i], 0)
                  /\ IsTranslateOf(CellsOf(result.Grid, tetrominoes[i].ID),
                                   tetrominoes[i], k, result.Grid.Size)
           /\ Pt(0, 0) \notin CellsOf(result.Grid, tetrominoes[i].ID)
           /\ ~IsTranslateOf(CellsOf(result.Grid, tetrominoes[i].ID),
                             tetrominoes[i], 0, result.Grid.Size)

\* C29: SolveTetris and SolveOptimal leave the caller's list as it was given:
\* no step of either changes the order of the list or the label, points,
\* Width, Height or Position of a piece in it, and the pieces of the search
\* order, which are the caller's pieces themselves, keep the caller's values,
\* so neither the sort nor GenerateRotations nor a placement writes to them.
C29_InputsKept ==
    [][/\ tetrominoes' = tetrominoes
       /\ Range(sorted') \subseteq Range(tetrominoes')]_vars

\* a search has succeeded in an order other than the caller's, with a piece
\* placed turned and away from the corner, and the caller's pieces still
\* stand unplaced in the order given
C29_Witness ==
    /\ SearchSucceeded
    /\ sorted # tetrominoes
    /\ \A i \in 1..Len(tetrominoes) :
           /\ tetrominoes[i].ID = Labels[i]
           /\ tetrominoes[i].Position = Pt(0, 0)
    /\ \E i \in 1..Len(tetrominoes) :
           CellsOf(result.Grid, tetrominoes[i].ID) \notin
               {Shifted(CellSet(tetrominoes[i]), ax, ay) :
                    ax \in 0..(result.Grid.Size - 1), ay \in 0..(result.Grid.Size - 1)}

\* the last call was a PlaceTetromino that returned an error
PlaceRefused == last.op = "PlaceTetromino" /\ last.err # NoError

\* the last call was a RemoveTetromino that followed a refused PlaceTetromino
RemovedAfterRefusal ==
    /\ last.op = "RemoveTetromino"
    /\ last.before.op = "PlaceTetromino"
    /\ last.before.err # NoError

\* the cells of grid gr a piece with the points and anchor of t stands on
StandsOn(gr, t) ==
    Shifted(CellSet(t), t.Position.X, t.Position.Y) \cap GridCells(gr.Size)

\* C30: a PlaceTetromino that returns an error changes no cell of the grid and
\* leaves the piece, its Position included, as it was before the call, so a
\* RemoveTetromino that follows clears the cells at the anchor the piece had
\* before the refused call and no others.
C30_RefusedPlacement ==
    /\ PlaceRefused => (board = last.g0 /\ piece = last.t0)
    /\ RemovedAfterRefusal =>
           /\ last.g0 = last.before.g0
           /\ piece = last.before.t0
           /\ \A p \in GridCells(board.Size) :
                  board.Cells[p.Y][p.X] =
                      IF p \in StandsOn(last.before.g0, last.before.t0)
                      THEN EmptyCell
                      ELSE last.before.g0.Cells[p.Y][p.X]

\* a piece placed away from the corner was refused at another anchor, and the
\* RemoveTetromino that followed cleared its 4 cells
C30_Witness ==
    /\ RemovedAfterRefusal
    /\ last.before.t0.Position # Pt(0, 0)
    /\ last.before.t0.Position # Pt(last.before.x, last.before.y)
    /\ Cardinality(CellsOf(last.before.g0, piece.ID)) >= 4
    /\ StandsOn(last.before.g0, last.before.t0) \subseteq CellsOf(last.before.g0, piece.ID)
    /\ Cardinality(StandsOn(last.before.g0, last.before.t0)) = 4
    /\ \A p \in StandsOn(board, piece) : board.Cells[p.Y][p.X] = EmptyCell

====
